---- MODULE Spec2Model ----
(***************************************************************************)
(* Model of the trace engine of @lickle/trace (class Trace of trace.ts):   *)
(* the active-span stack, metadata construction, level filtering and the   *)
(* dispatch to the subscriber's optional callbacks; of class Builder of    *)
(* subscribe.ts, which merges layers into one subscriber; and of the       *)
(* scoped spans and the events of class Logger of log.ts.                  *)
(*                                                                         *)
(* Optional JavaScript values are modelled as sequences of length 0 or 1:  *)
(* None is undefined, Some(x) is the defined value x.  Span ids are        *)
(* integers: EmptyId is the empty string '' of the no-op span, uuid()      *)
(* yields 1, 2, 3, ... and a subscriber's newSpan yields negative ids.     *)
(***************************************************************************)
EXTENDS Integers, Sequences, FiniteSets, TLC

VARIABLES
    stack,    \* Trace.stack: the active spans, top last
    sub,      \* Trace.sub: the installed subscriber
    installed, \* the subscriber last handed to the constructor or to setSubscriber
    known,    \* the spans span() has returned to the caller
    idc,      \* the last id uuid() gave to a span
    clock,    \* the last value now() gave to a span
    last,     \* record of the last public operation and of the callbacks it invoked
    raised,   \* whether the last operation threw to its caller
    inner,    \* what a Builder's merged subscriber did inside those callbacks, in order
    prev,     \* when the last two operations were exit() calls and the first popped: its record
    seg,      \* the current properly nested run of span()/exit() calls
    exited,   \* ids of spans on which an active exit() was called and enter() was not called since
    tasks,    \* the Logger.span calls made, in call order: position, span and steps of each
    callstack, \* the calls whose fn is running, innermost last
    emitter,  \* the logical task that emitted the event of the last operation, 0 if none
    heap,     \* the caller's objects that fields refer to, by address
    supplied, \* the fields object the caller hands to span() and event()
    kept,     \* the span or event last recorded with those fields, and what its fields
              \* read when it was recorded
    watch     \* which of prev, seg and exited this run keeps (last is always kept);
              \* "inert" while the engine still has the subscriber-less state it was constructed with

vars == <<stack, sub, installed, known, idc, clock, last, raised, inner, prev, seg, exited,
          tasks, callstack, emitter, heap, supplied, kept, watch>>

(* the callers of the Logger *)
callers == <<tasks, callstack, emitter>>

(* the callers' objects *)
objects == <<heap, supplied, kept>>

(* the state outside the engine and its subscriber *)
outside == <<tasks, callstack, emitter, heap, supplied, kept>>

----------------------------------------------------------------------------
(* Bounds of the model *)

MaxSpans == 2    \* distinct spans span() has returned to the caller
MaxStack == 2    \* depth of the active-span stack explored
MaxLayers == 2   \* layers a Builder is given
MaxTasks == 2    \* Logger.span calls made in a run

----------------------------------------------------------------------------
(* Optional values *)

None == <<>>
Some(x) == <<x>>
IsSome(o) == o # <<>>
Get(o) == o[1]

----------------------------------------------------------------------------
(* enum Level *)

TRACE == 10
DEBUG == 20
INFO == 30
WARN == 40
ERROR == 50

Level == {TRACE, DEBUG, INFO, WARN, ERROR}

EmptyId == 0

----------------------------------------------------------------------------
(* Inputs the callers of the engine choose from *)

Names == {"outer"}
EventNames == {Some("start")}
SpanLevelArgs == {None, Some(DEBUG)}
EventLevelArgs == {None, Some(DEBUG), Some(INFO)}
SpanFieldsArgs == {Some([requestId |-> 1])}
EventFieldsArgs == {None}
MessageArgs == {Some("Application ready")}

(* interface Subscriber: every member is optional.  A callback that is     *)
(* "present" returns normally; one that "throws" throws when invoked       *)
Subscriber ==
    [ minLevel : {None, Some(INFO)},
      newSpan : {"absent", "own"},
      onEnter : {"absent", "present"},
      onExit : {"absent", "present"},
      onEvent : {"absent", "present"} ]

(* the callbacks a subscriber has *)
Callbacks(s) == { cb \in {"newSpan", "onEnter", "onExit", "onEvent"} : s[cb] # "absent" }

(* the subscribers explored *)
Subscribers ==
    { s \in Subscriber :
        \/ Callbacks(s) = {}
        \/ Callbacks(s) = {"onEnter"} /\ s.minLevel = None
        \/ Callbacks(s) = {"onEnter", "onExit", "onEvent"}
        \/ Callbacks(s) = {"newSpan", "onEnter", "onExit", "onEvent"} /\ s.minLevel = Some(INFO) }

(* subscribers whose onExit throws *)
FailingSubscribers ==
    { [ s EXCEPT !.onExit = "throws" ] : s \in { x \in Subscribers : x.onExit # "absent" } }

(* subscribers with all four callbacks, one of which throws *)
ThrowingSubscribers ==
    { [ s EXCEPT ![cb] = "throws" ] :
        s \in { x \in Subscribers : Cardinality(Callbacks(x)) = 4 },
        cb \in {"newSpan", "onEnter", "onExit", "onEvent"} }

(* subscribers whose onEnter or onExit calls back into the trace: it      *)
(* "emits" an event or "opens" a span before it returns                    *)
ReentrantSubscribers ==
    { [ s EXCEPT ![cb] = does ] :
        s \in { x \in Subscribers : Callbacks(x) = {"onEnter", "onExit", "onEvent"}
                                       /\ x.minLevel = None },
        cb \in {"onEnter", "onExit"},
        does \in {"emits", "opens"} }

(* the default constructor argument: sub = {} *)
EmptySubscriber ==
    [ minLevel |-> None, newSpan |-> "absent", onEnter |-> "absent",
      onExit |-> "absent", onEvent |-> "absent" ]

(* a layer handed to Builder.withLayer: a subscriber with the callbacks cbs *)
Layer(cbs) ==
    [ minLevel |-> None,
      newSpan |-> IF "newSpan" \in cbs THEN "own" ELSE "absent",
      onEnter |-> IF "onEnter" \in cbs THEN "present" ELSE "absent",
      onExit |-> IF "onExit" \in cbs THEN "present" ELSE "absent",
      onEvent |-> IF "onEvent" \in cbs THEN "present" ELSE "absent" ]

----------------------------------------------------------------------------
(* util.ts *)

uuid(n) == n + 1

now(t) == t + 1

----------------------------------------------------------------------------
(* Records *)

(* interface Span / interface Event, and the Metadata handed to newSpan *)
Item(type, id, meta, message) ==
    [ type |-> type, id |-> id, meta |-> meta, message |-> message ]

NoMeta == [ name |-> None, level |-> 0, ts |-> 0, parent |-> None, fields |-> None ]

NoItem == Item("none", EmptyId, NoMeta, None)

Call(cb, item) == [ cb |-> cb, item |-> item ]

Top(stk) == stk[Len(stk)]

Front(stk) == SubSeq(stk, 1, Len(stk) - 1)

(* faulty variant of Push: unshift, the span goes to the bottom *)
Push_unshift(stk, sp) == <<sp>> \o stk

(* `this.stack.push(sp)` *)
Push(stk, sp) == Append(stk, sp)

(* the ids of the spans a sequence of callback invocations reports to callback cb *)
RECURSIVE IdsOf(_, _)
IdsOf(calls, cb) ==
    IF calls = <<>> THEN <<>>
    ELSE (IF Head(calls).cb = cb THEN <<Head(calls).item.id>> ELSE <<>>)
         \o IdsOf(Tail(calls), cb)

(* how many times the span sp is on the stack stk *)
Occurrences(stk, sp) == Cardinality({ i \in 1..Len(stk) : stk[i] = sp })

----------------------------------------------------------------------------
(* class Trace: private helpers *)

(* `fields ? { ...fields } : undefined`: a fresh object with the same own keys *)
copyFields(fields) ==
    IF IsSome(fields)
    THEN Some([ k \in DOMAIN Get(fields) |-> Get(fields)[k] ])
    ELSE None

(* faulty variant of getMeta: parent taken from the bottom of the stack *)
getMeta_bottomParent(stk, name, level, fields, t) ==
    [ name |-> name,
      level |-> level,
      ts |-> t,
      parent |-> IF Len(stk) > 0 THEN Some(stk[1].id) ELSE None,
      fields |-> copyFields(fields) ]

(* Trace.getMeta: parent is the id of the top of the stack at the call *)
getMeta(stk, name, level, fields, t) ==
    [ name |-> name,
      level |-> level,
      ts |-> t,
      parent |-> IF Len(stk) > 0 THEN Some(Top(stk).id) ELSE None,
      fields |-> copyFields(fields) ]

(* `this.sub.minLevel ?? Level.TRACE` *)
minLevelOf(s) == IF IsSome(s.minLevel) THEN Get(s.minLevel) ELSE TRACE

(* the subscriber exposes at least one callback *)
hasCallback(s) ==
    \/ s.newSpan # "absent"
    \/ s.onEnter # "absent"
    \/ s.onExit # "absent"
    \/ s.onEvent # "absent"

(* faulty variant of shouldEmit: the minLevel comparison is missing *)
shouldEmit_noMinLevel(s, lvl) ==
    /\ IsSome(lvl)
    /\ Get(lvl) # 0
    /\ hasCallback(s)

(* faulty variant of shouldEmit: > in place of >= *)
shouldEmit_strict(s, lvl) ==
    /\ IsSome(lvl)
    /\ Get(lvl) # 0
    /\ Get(lvl) > minLevelOf(s)
    /\ hasCallback(s)

(* faulty variant of shouldEmit: the callback test is missing *)
shouldEmit_noCallbackTest(s, lvl) ==
    /\ IsSome(lvl)
    /\ Get(lvl) # 0
    /\ Get(lvl) >= minLevelOf(s)

(* Trace.shouldEmit: lvl && lvl >= (minLevel ?? TRACE) && (some callback) *)
shouldEmit(s, lvl) ==
    /\ IsSome(lvl)
    /\ Get(lvl) # 0
    /\ Get(lvl) >= minLevelOf(s)
    /\ hasCallback(s)

(* `this.sub.cb?.(item)`: the callback is invoked when the subscriber has it *)
notify(s, cb, item) ==
    IF s[cb] # "absent" THEN << Call(cb, item) >> ELSE <<>>

(* a callback invoked among calls threw *)
threw(s, calls) == \E i \in 1..Len(calls) : s[calls[i].cb] = "throws"

(* a subscriber's newSpan: its own id, the metadata passed through *)
newSpan(meta) == Item("span", 0 - meta.ts, meta, None)

----------------------------------------------------------------------------
(* class Builder, in its two revisions: subscribe.ts (custom filters, no    *)
(* withMinLevel) and the revision before it (withMinLevel, no filters).     *)
(* A builder is its private fields; `thrown` tells that a call of the       *)
(* chain threw, which ends the chain: the calls after it do not happen.     *)

Revisions == {"subscribe.ts", "part_001"}

(* `new Builder()`: filters = [], minLevel = Level.TRACE, layers = [] *)
NewBuilder(rev) ==
    [ rev |-> rev, filters |-> <<>>, minLevel |-> TRACE, layers |-> <<>>, thrown |-> FALSE ]

(* calling a method the revision does not have: TypeError, not a function *)
notAFunction(b) == [ b EXCEPT !.thrown = TRUE ]

(* Builder.withFilter: subscribe.ts only *)
withFilter(b, f) ==
    IF b.thrown THEN b
    ELSE IF b.rev = "subscribe.ts" THEN [ b EXCEPT !.filters = Append(@, f) ]
    ELSE notAFunction(b)

(* Builder.withMinLevel: the earlier revision only *)
withMinLevel(b, level) ==
    IF b.thrown THEN b
    ELSE IF b.rev = "part_001" THEN [ b EXCEPT !.minLevel = level ]
    ELSE notAFunction(b)

(* Builder.withLayer *)
withLayer(b, l) ==
    IF b.thrown THEN b ELSE [ b EXCEPT !.layers = Append(@, l) ]

(* the filter functions explored: (type, level, meta) => boolean *)
FilterFns == {"spanOnly", "infoUp", "never"}

accepts(f, type, level, meta) ==
    CASE f = "spanOnly" -> type = "span"
      [] f = "infoUp" -> level >= INFO
      [] OTHER -> FALSE

(* a step inside the merged subscriber: a filter evaluated, or a callback  *)
(* of a layer invoked; idx is the position of the filter or of the layer   *)
Step(kind, idx, cb, item) == [ kind |-> kind, idx |-> idx, cb |-> cb, item |-> item ]

(* `this.layers.forEach((l) => l.cb?.(item))`, from layer i on *)
RECURSIVE forEachLayer(_, _, _, _)
forEachLayer(layers, i, cb, item) ==
    IF i > Len(layers) THEN <<>>
    ELSE (IF layers[i][cb] # "absent" THEN << Step("layer", i, cb, item) >> ELSE <<>>)
         \o forEachLayer(layers, i + 1, cb, item)

(* faulty variant of filterFrom: the loop does not end at the first filter *)
(* that accepts                                                            *)
RECURSIVE filterFrom_noReturn(_, _, _, _)
filterFrom_noReturn(b, i, cb, item) ==
    IF Len(b.filters) = 0 THEN <<>>
    ELSE IF i > Len(b.filters) THEN <<>>
    ELSE << Step("filter", i, cb, item) >>
         \o (IF accepts(b.filters[i], item.type, item.meta.level, item.meta)
             THEN forEachLayer(b.layers, 1, cb, item)
             ELSE <<>>)
         \o filterFrom_noReturn(b, i + 1, cb, item)

(* the `filter` helper of install in subscribe.ts, from filter i on: with  *)
(* no filter it returns true and does not call f; otherwise the first      *)
(* filter that accepts calls f once and ends the loop                      *)
RECURSIVE filterFrom(_, _, _, _)
filterFrom(b, i, cb, item) ==
    IF Len(b.filters) = 0 THEN <<>>
    ELSE IF i > Len(b.filters) THEN <<>>
    ELSE << Step("filter", i, cb, item) >>
         \o (IF accepts(b.filters[i], item.type, item.meta.level, item.meta)
             THEN forEachLayer(b.layers, 1, cb, item)
             ELSE filterFrom(b, i + 1, cb, item))

(* onEnter, onExit and onEvent of the merged subscriber *)
Builder_on(b, cb, item) ==
    IF b.rev = "subscribe.ts"
    THEN filterFrom(b, 1, cb, item)
    ELSE forEachLayer(b.layers, 1, cb, item)

(* faulty variant of findNewSpan: the last layer that has newSpan *)
findNewSpan_last(layers) ==
    IF \E i \in 1..Len(layers) : layers[i].newSpan # "absent"
    THEN CHOOSE i \in 1..Len(layers) :
            /\ layers[i].newSpan # "absent"
            /\ \A j \in (i + 1)..Len(layers) : layers[j].newSpan = "absent"
    ELSE 0

(* `this.layers.find((x) => x.newSpan)`: its position, 0 when there is none *)
findNewSpan(layers) ==
    IF \E i \in 1..Len(layers) : layers[i].newSpan # "absent"
    THEN CHOOSE i \in 1..Len(layers) :
            /\ layers[i].newSpan # "absent"
            /\ \A j \in 1..(i - 1) : layers[j].newSpan = "absent"
    ELSE 0

(* newSpan of the layer at position i: ids of its own, the metadata passed through *)
layerNewSpan(i, meta) == Item("span", 0 - (meta.ts * MaxLayers + i - 1), meta, None)

(* newSpan of the merged subscriber; id is the last id uuid() gave *)
Builder_newSpan(b, id, meta) ==
    IF findNewSpan(b.layers) = 0
    THEN Item("span", uuid(id), meta, None)
    ELSE layerNewSpan(findNewSpan(b.layers), meta)

(* the steps newSpan of the merged subscriber takes *)
Builder_newSpanSteps(b, item) ==
    IF findNewSpan(b.layers) = 0
    THEN <<>>
    ELSE << Step("layer", findNewSpan(b.layers), "newSpan", item) >>

(* the subscriber `install` assembles: it keeps a reference to the builder *)
merged(b) ==
    [ minLevel |-> Some(b.minLevel), newSpan |-> "merged", onEnter |-> "present",
      onExit |-> "present", onEvent |-> "present", builder |-> b ]

(* Builder.install on a trace whose subscriber is old *)
install(old, b) == IF b.thrown THEN old ELSE merged(b)

(* the builder chains explored *)
Builders ==
    LET l_event == Layer({"onEvent"})
        l_enter == Layer({"onEnter"})
        l_plain == Layer({"onEnter", "onExit", "onEvent"})
        l_all == Layer({"newSpan", "onEnter", "onExit", "onEvent"})
        chains ==
          { withLayer(withLayer(NewBuilder("subscribe.ts"), l_event), l_enter),
            withLayer(withLayer(withMinLevel(NewBuilder("part_001"), INFO), l_event), l_enter),
            withLayer(withMinLevel(NewBuilder("part_001"), INFO), l_all),
            withLayer(withMinLevel(NewBuilder("subscribe.ts"), INFO), l_all),
            withLayer(withLayer(withFilter(withFilter(NewBuilder("subscribe.ts"),
                                                      "spanOnly"), "infoUp"), l_all), l_all),
            withLayer(withFilter(NewBuilder("subscribe.ts"), "never"), l_plain),
            withLayer(withLayer(withLayer(NewBuilder("part_001"), l_enter), l_plain), l_all) }
    IN { b \in chains : /\ Len(b.layers) <= MaxLayers
                         /\ \A i \in 1..Len(b.filters) : b.filters[i] \in FilterFns }

(* what the subscriber s does inside the callbacks the engine invoked *)
RECURSIVE handle(_, _)
handle(s, calls) ==
    IF s.newSpan # "merged" \/ calls = <<>> THEN <<>>
    ELSE (IF Head(calls).cb = "newSpan"
          THEN Builder_newSpanSteps(s.builder, Head(calls).item)
          ELSE Builder_on(s.builder, Head(calls).cb, Head(calls).item))
         \o handle(s, Tail(calls))

(* `{ type, id: uuid(), meta, ...(newSpan ? newSpan(meta) : {}) }` *)
makeSpan(s, id, meta) ==
    IF s.newSpan = "merged" THEN Builder_newSpan(s.builder, id, meta)
    ELSE IF s.newSpan # "absent" THEN newSpan(meta)
    ELSE Item("span", id, meta, None)

(* the last id uuid() gave once the span is made: the merged subscriber    *)
(* calls uuid() itself when no layer has newSpan                           *)
idAfter(s, id) ==
    IF s.newSpan = "merged" /\ findNewSpan(s.builder.layers) = 0 THEN uuid(id) ELSE id

(* the no-op span returned when the level is filtered out *)
noopSpan(name, level) ==
    Item("span", EmptyId,
         [ name |-> Some(name), level |-> level, ts |-> 0, parent |-> None, fields |-> None ],
         None)

(* faulty variant of popIfTop: pops whatever is on top *)
popIfTop_always(stk, sp) ==
    IF Len(stk) > 0 THEN Front(stk) ELSE stk

(* `if (stack[stack.length - 1]?.id === sp.id) stack.pop()` *)
popIfTop(stk, sp) ==
    IF Len(stk) > 0 /\ Top(stk).id = sp.id THEN Front(stk) ELSE stk

----------------------------------------------------------------------------
(* class Trace: the public operations, as functions of the engine's state. *)
(* Each yields the new stack, the callbacks invoked in order, the span or  *)
(* event produced, and the id counter and clock after the call.            *)

Result(stk, calls, item, n, t) ==
    [ stack |-> stk, calls |-> calls, item |-> item, idc |-> n, clock |-> t ]

(* `level = Level.INFO`: the default parameter of Trace.span *)
spanLevel(lvlArg) == IF IsSome(lvlArg) THEN Get(lvlArg) ELSE INFO

(* the name a subscriber gives to what it creates inside its callbacks *)
InnerName == "inner"

(* Trace.span and Trace.event as a callback calls them: the callbacks     *)
(* these nested calls invoke return at once                                 *)
span_nested(stk, s, n, t, name, lvlArg, fields) ==
    LET level == spanLevel(lvlArg) IN
    IF ~shouldEmit(s, Some(level))
    THEN Result(stk, <<>>, noopSpan(name, level), n, t)
    ELSE LET meta == getMeta(stk, Some(name), level, fields, now(t))
             sp == makeSpan(s, uuid(n), meta)
             asked == IF s.newSpan # "absent"
                     THEN << Call("newSpan", Item("meta", EmptyId, meta, None)) >>
                     ELSE <<>>
         IN Result(Push(stk, sp), asked \o notify(s, "onEnter", sp), sp,
                   idAfter(s, uuid(n)), now(t))

event_nested(stk, s, n, t, name, lvlArg, msg, fields) ==
    IF ~shouldEmit(s, lvlArg)
    THEN Result(stk, <<>>, NoItem, n, t)
    ELSE LET evt == Item("event", uuid(n), getMeta(stk, name, Get(lvlArg), fields, now(t)), msg)
         IN Result(stk, notify(s, "onEvent", evt), evt, n, t)

(* `this.sub.cb?.(item)` as it runs on the stack stk: the callback is     *)
(* invoked when the subscriber has it.  A callback that "emits" calls      *)
(* trace.event, and one that "opens" calls trace.span, on the same trace   *)
(* before it returns.  The result keeps the item the callback was given.   *)
invoke(stk, s, n, t, cb, item) ==
    IF s[cb] = "emits"
    THEN [ event_nested(stk, s, n, t, Some(InnerName), Some(item.meta.level), None, None)
             EXCEPT !.calls = notify(s, cb, item) \o @, !.item = item ]
    ELSE IF s[cb] = "opens"
    THEN [ span_nested(stk, s, n, t, InnerName, Some(item.meta.level), None)
             EXCEPT !.calls = notify(s, cb, item) \o @, !.item = item ]
    ELSE Result(stk, notify(s, cb, item), item, n, t)

(* `this.stack.push(sp)` after the onEnter call with result r: the push is *)
(* not reached when the callback threw                                     *)
pushUnlessThrown(s, r, sp) ==
    IF threw(s, r.calls) THEN r ELSE [ r EXCEPT !.stack = Push(@, sp) ]

(* the pop of Trace.exit after the onExit call with result r: it is not    *)
(* reached when the callback threw                                         *)
popUnlessThrown(s, r, sp) ==
    IF threw(s, r.calls) THEN r ELSE [ r EXCEPT !.stack = popIfTop(@, sp) ]

(* the end of Trace.span after newSpan was asked and onEnter was invoked   *)
(* with result r: push and return the span, or nothing when onEnter threw. *)
(* The id and the timestamp taken by a span that is never returned are not *)
(* kept (see event below).                                                 *)
spanEntered(s, asked, r, n, t) ==
    IF threw(s, r.calls)
    THEN Result(r.stack, asked \o r.calls, NoItem, n, t)
    ELSE Result(Push(r.stack, r.item), asked \o r.calls, r.item, r.idc, r.clock)

(* Trace.span: newSpan, then onEnter, then the push; a callback that      *)
(* throws ends the call there.                                             *)
span(stk, s, n, t, name, lvlArg, fields) ==
    LET level == spanLevel(lvlArg) IN
    IF ~shouldEmit(s, Some(level))
    THEN Result(stk, <<>>, noopSpan(name, level), n, t)
    ELSE LET meta == getMeta(stk, Some(name), level, fields, now(t))
             asked == IF s.newSpan # "absent"
                     THEN << Call("newSpan", Item("meta", EmptyId, meta, None)) >>
                     ELSE <<>>
         IN IF threw(s, asked)
            THEN Result(stk, asked, NoItem, n, t)
            ELSE spanEntered(s, asked,
                             invoke(stk, s, idAfter(s, uuid(n)), now(t), "onEnter",
                                    makeSpan(s, uuid(n), meta)),
                             n, t)

(* faulty variant of enter: the span is pushed before onEnter is invoked *)
enter_pushFirst(stk, s, n, t, sp) ==
    IF ~shouldEmit(s, Some(sp.meta.level))
    THEN Result(stk, <<>>, sp, n, t)
    ELSE invoke(Push(stk, sp), s, n, t, "onEnter", sp)

(* faulty variant of enter: a span that is on the stack is not pushed again *)
enter_ifAbsent(stk, s, n, t, sp) ==
    IF ~shouldEmit(s, Some(sp.meta.level))
    THEN Result(stk, <<>>, sp, n, t)
    ELSE IF Occurrences(stk, sp) > 0
    THEN invoke(stk, s, n, t, "onEnter", sp)
    ELSE pushUnlessThrown(s, invoke(stk, s, n, t, "onEnter", sp), sp)

(* Trace.enter: onEnter and then the push *)
enter(stk, s, n, t, sp) ==
    IF ~shouldEmit(s, Some(sp.meta.level))
    THEN Result(stk, <<>>, sp, n, t)
    ELSE pushUnlessThrown(s, invoke(stk, s, n, t, "onEnter", sp), sp)

(* faulty variant of exit: the pop comes before onExit is invoked *)
exit_popFirst(stk, s, n, t, sp) ==
    IF ~shouldEmit(s, Some(sp.meta.level))
    THEN Result(stk, <<>>, sp, n, t)
    ELSE invoke(popIfTop(stk, sp), s, n, t, "onExit", sp)

(* Trace.exit: `this.sub.onExit?.(sp)` and then the pop *)
exit(stk, s, n, t, sp) ==
    IF ~shouldEmit(s, Some(sp.meta.level))
    THEN Result(stk, <<>>, sp, n, t)
    ELSE popUnlessThrown(s, invoke(stk, s, n, t, "onExit", sp), sp)

(* faulty variant of event: the event is pushed like a span *)
event_pushes(stk, s, n, t, name, lvlArg, msg, fields) ==
    IF ~shouldEmit(s, lvlArg)
    THEN Result(stk, <<>>, NoItem, n, t)
    ELSE LET evt == Item("event", uuid(n), getMeta(stk, name, Get(lvlArg), fields, now(t)), msg)
         IN Result(Push(stk, evt), notify(s, "onEvent", evt), evt, n, t)

(* Trace.event.  An event lives only for the dispatch call that creates it, *)
(* so the id and the timestamp it takes are not kept: they are fresh with    *)
(* respect to every span, and the next span may be given the same values.    *)
event(stk, s, n, t, name, lvlArg, msg, fields) ==
    IF ~shouldEmit(s, lvlArg)
    THEN Result(stk, <<>>, NoItem, n, t)
    ELSE invoke(stk, s, n, t, "onEvent",
                Item("event", uuid(n), getMeta(stk, name, Get(lvlArg), fields, now(t)), msg))

(* Trace.getSubscriber: `return this.sub` *)
getSubscriber(s) == s

(* faulty variant of setSubscriber: the assignment is missing *)
setSubscriber_ignored(old, s) == old

(* Trace.setSubscriber: `this.sub = sub`, nothing else *)
setSubscriber(old, s) == s

----------------------------------------------------------------------------
(* class Logger: spanFn.  Logger.meta is {} unless the caller fills it.     *)

LoggerLevels == {DEBUG, INFO}

(* `fn1 ? self.meta : { ...self.meta, ...fields }` *)
spanFn_fields(form, fields) ==
    IF form = "fn1" THEN Some(<<>>)
    ELSE IF IsSome(fields) THEN fields ELSE Some(<<>>)

(* logfn: `{ ...self.meta, ...fields }` *)
logfn_fields(fields) == IF IsSome(fields) THEN fields ELSE Some(<<>>)

(* faulty variant of spanFn_after: the catch block does not call exit *)
spanFn_after_bareCatch(outcome) ==
    CASE outcome = "returns" -> <<"exit", "return">>
      [] outcome = "throws" -> <<"rethrow">>
      [] OTHER -> <<"finally", "return">>

(* spanFn once fn has ended: `trace.exit(sp); return r` when it returned a *)
(* value that is not a promise, `trace.exit(sp); throw err` when it threw,  *)
(* `return r.finally(...)` when it returned a promise                       *)
spanFn_after(outcome) ==
    CASE outcome = "returns" -> <<"exit", "return">>
      [] outcome = "throws" -> <<"exit", "rethrow">>
      [] OTHER -> <<"finally", "return">>

(* the callback given to finally, run when the promise has settled *)
spanFn_finally == <<"settled", "exit">>

(* the handle of the form without fn: `{ exit: () => trace.exit(sp) }` *)
spanFn_handle == <<"exit">>

(* the engine after the steps of spanFn: every "exit" is trace.exit(sp) *)
RECURSIVE runSteps(_, _, _, _, _, _)
runSteps(stk, s, n, t, sp, steps) ==
    IF steps = <<>> THEN Result(stk, <<>>, sp, n, t)
    ELSE IF Head(steps) = "exit"
    THEN LET r == exit(stk, s, n, t, sp)
             rest == runSteps(r.stack, s, r.idc, r.clock, sp, Tail(steps))
         IN Result(rest.stack, r.calls \o rest.calls, sp, rest.idc, rest.clock)
    ELSE runSteps(stk, s, n, t, sp, Tail(steps))

(* how many times a step occurs among steps *)
Count(steps, step) == Cardinality({ i \in 1..Len(steps) : steps[i] = step })

----------------------------------------------------------------------------
(* Bookkeeping of the run, for stating properties *)

OpRec(op, lvl, msg, item, before, calls) ==
    [ op |-> op, level |-> lvl, message |-> msg, item |-> item,
      before |-> before, calls |-> calls ]

NoOp == OpRec("init", None, None, NoItem, <<>>, <<>>)

(* a properly nested run that starts at stack stk: the spans it opened and  *)
(* has not closed, the ids span() returned and exit() was given, in call   *)
(* order, and the ids onEnter and onExit were invoked with, in call order  *)
NewSeg(stk) ==
    [ base |-> stk, open |-> <<>>, opened |-> <<>>, closed |-> <<>>,
      enters |-> <<>>, exits |-> <<>> ]

(* the addresses of the objects the caller stores under its fields *)
Addresses == {"user"}

(* what fields read through the heap hp: the value under each key, and for *)
(* the key that holds an object the content of that object                 *)
Read(fields, hp) ==
    IF IsSome(fields)
    THEN Some([ k \in DOMAIN Get(fields) |->
                  IF k = "user" THEN hp[Get(fields)[k]] ELSE Get(fields)[k] ])
    ELSE None

(* a recorded span or event and what its fields read at that time *)
Kept(item, hp) == [ item |-> item, read |-> Read(item.meta.fields, hp) ]

NotKept == <<>>

(* a Logger.span call: where it is, the span it made, the steps it took *)
Task(pc, sp, trail) == [ pc |-> pc, sp |-> sp, trail |-> trail ]

(* no call of Logger.span was made yet *)
NoTasks == <<>>

(* the engine's state after an operation with result r *)
Apply(op, lvl, msg, r) ==
    /\ Len(r.stack) <= MaxStack
    /\ stack' = r.stack
    /\ idc' = r.idc
    /\ clock' = r.clock
    /\ prev' = IF watch = "exits" /\ op = "exit" /\ last.op = "exit" /\ stack # last.before
               THEN last
               ELSE NoOp
    /\ installed' = installed
    /\ raised' = threw(sub, r.calls)
    /\ inner' = handle(sub, r.calls)
    /\ watch' = watch
    /\ last' = OpRec(op, lvl, msg, r.item, stack, r.calls)

----------------------------------------------------------------------------
(* The state machine *)

(* the state after `new Trace(s)` for a subscriber s of subs *)
InitFrom(w, subs) ==
    /\ watch = w
    /\ stack = <<>>
    /\ sub \in subs
    /\ installed = sub
    /\ known = {}
    /\ idc = 0
    /\ clock = 0
    /\ last = NoOp
    /\ raised = FALSE
    /\ inner = <<>>
    /\ prev = NoOp
    /\ seg = NewSeg(<<>>)
    /\ exited = {}
    /\ tasks = NoTasks
    /\ callstack = <<>>
    /\ emitter = 0
    /\ heap = [ a \in Addresses |-> [ name |-> "ann" ] ]
    /\ supplied = [ requestId |-> 1, user |-> CHOOSE a \in Addresses : TRUE ]
    /\ kept = NotKept

InitWatching(w) == InitFrom(w, Subscribers)

Init == InitWatching("calls")

InitExits == InitWatching("exits")

InitNested == InitWatching("nested")

InitExited == InitWatching("exited")

(* `new Trace()`: constructed without a subscriber, sub = {} *)
InitInert == InitWatching("inert") /\ sub = EmptySubscriber

(* the caller invokes trace.span(name, level, fields) *)
Span ==
    \E name \in Names, lvlArg \in SpanLevelArgs, fields \in SpanFieldsArgs :
        LET r == span(stack, sub, idc, clock, name, lvlArg, fields)
            active == shouldEmit(sub, Some(spanLevel(lvlArg)))
        IN /\ Apply("span", Some(spanLevel(lvlArg)), None, r)
           /\ known' = IF r.item = NoItem THEN known ELSE known \cup {r.item}
           /\ Cardinality(known') <= MaxSpans
           /\ seg' = IF watch = "nested" /\ active
                     THEN [ seg EXCEPT !.open = Append(@, r.item),
                                       !.opened = Append(@, r.item.id),
                                       !.enters = @ \o IdsOf(r.calls, "onEnter") ]
                     ELSE NewSeg(IF watch = "nested" THEN r.stack ELSE <<>>)
           /\ UNCHANGED <<sub, exited, outside>>

(* the caller invokes trace.enter(sp) on a span it holds *)
Enter ==
    \E sp \in known :
        LET r == enter(stack, sub, idc, clock, sp)
        IN /\ Apply("enter", Some(sp.meta.level), None, r)
           /\ seg' = NewSeg(IF watch = "nested" THEN r.stack ELSE <<>>)
           /\ exited' = exited \ {sp.id}
           /\ UNCHANGED <<sub, known, outside>>

(* the caller invokes trace.exit(sp) on a span it holds *)
Exit ==
    \E sp \in known :
        LET r == exit(stack, sub, idc, clock, sp)
            active == shouldEmit(sub, Some(sp.meta.level))
        IN /\ Apply("exit", Some(sp.meta.level), None, r)
           /\ seg' = IF watch = "nested" /\ active /\ Len(seg.open) > 0 /\ Top(seg.open) = sp
                     THEN [ seg EXCEPT !.open = Front(@),
                                       !.closed = Append(@, sp.id),
                                       !.exits = @ \o IdsOf(r.calls, "onExit") ]
                     ELSE NewSeg(IF watch = "nested" THEN r.stack ELSE <<>>)
           /\ exited' = IF watch = "exited" /\ active /\ sp.id # EmptyId /\ Occurrences(stack, sp) = 1
                        THEN exited \cup {sp.id}
                        ELSE exited
           /\ UNCHANGED <<sub, known, outside>>

(* the caller invokes trace.event(name, level, msg, fields) *)
Event ==
    \E name \in EventNames, lvlArg \in EventLevelArgs,
       msg \in MessageArgs, fields \in EventFieldsArgs :
        LET r == event(stack, sub, idc, clock, name, lvlArg, msg, fields)
        IN /\ Apply("event", lvlArg, msg, r)
           /\ UNCHANGED <<sub, known, seg, exited, outside>>

(* the engine's state after trace.setSubscriber(s) *)
Replace(s) ==
    /\ sub' = setSubscriber(sub, s)
    /\ installed' = s
    /\ prev' = NoOp
    /\ last' = OpRec("setSubscriber", None, None, NoItem, stack, <<>>)
    /\ raised' = FALSE
    /\ inner' = <<>>
    /\ seg' = IF watch = "balanced"
              THEN seg
              ELSE NewSeg(IF watch = "nested" THEN stack ELSE <<>>)
    /\ watch' = IF watch = "inert" THEN "calls" ELSE watch
    /\ UNCHANGED <<stack, known, idc, clock, exited, outside>>

(* the caller invokes trace.setSubscriber(s) *)
SetSubscriber == \E s \in Subscribers : Replace(s)

(* the caller invokes trace.setSubscriber(s), one callback of s throws *)
SetThrowingSubscriber == \E s \in ThrowingSubscribers : Replace(s)

Next == Span \/ Enter \/ Exit \/ Event \/ SetSubscriber

Spec == Init /\ [][Next]_vars

SpecExits == InitExits /\ [][Next]_vars

SpecNested == InitNested /\ [][Next]_vars

SpecExited == InitExited /\ [][Next]_vars

SpecInert == InitInert /\ [][Next]_vars

(* `new Trace(s)` with a subscriber whose onExit throws *)
InitFailing == InitFrom("calls", FailingSubscribers)

SpecFailing == InitFailing /\ [][Next]_vars

(* A caller that exits every span it got from span(), once, last one      *)
(* first: seg.open holds the spans it has not exited yet.                  *)
InitBalanced == InitWatching("balanced")

(* the caller invokes trace.span(name, level, fields) and keeps the span *)
SpanBalanced ==
    \E name \in Names, lvlArg \in SpanLevelArgs, fields \in SpanFieldsArgs :
        LET r == span(stack, sub, idc, clock, name, lvlArg, fields)
        IN /\ Len(seg.open) < MaxStack
           /\ Apply("span", Some(spanLevel(lvlArg)), None, r)
           /\ known' = known \cup {r.item}
           /\ Cardinality(known') <= MaxSpans
           /\ seg' = [ seg EXCEPT !.open = Append(@, r.item) ]
           /\ UNCHANGED <<sub, exited, outside>>

(* the caller invokes trace.exit(sp) on the span it got last and has not  *)
(* exited yet                                                              *)
ExitBalanced ==
    /\ seg.open # <<>>
    /\ LET sp == Top(seg.open)
           r == exit(stack, sub, idc, clock, sp)
       IN /\ Apply("exit", Some(sp.meta.level), None, r)
          /\ seg' = [ seg EXCEPT !.open = Front(@) ]
          /\ UNCHANGED <<sub, known, exited, outside>>

NextBalanced == SpanBalanced \/ ExitBalanced \/ Event \/ SetSubscriber

SpecBalanced == InitBalanced /\ [][NextBalanced]_vars

(* `new Trace(s)` with a subscriber that calls back into the trace *)
InitReentrant == InitFrom("calls", ReentrantSubscribers)

NextReentrant == Span \/ Enter \/ Exit \/ Event

SpecReentrant == InitReentrant /\ [][NextReentrant]_vars

NextThrowing == Span \/ Enter \/ Exit \/ Event \/ SetThrowingSubscriber

SpecThrowing == Init /\ [][NextThrowing]_vars

(* `t = new Trace()` and then a builder chain ending in `.install(t)` *)
InitBuilder == InitFrom("calls", { install(EmptySubscriber, b) : b \in Builders })

(* the caller runs a builder chain ending in `.install(t)` on the trace;   *)
(* the runs explored set the trace up before they create spans             *)
Install ==
    \E b \in Builders :
        /\ known = {}
        /\ sub' = install(sub, b)
        /\ installed' = sub'
        /\ prev' = NoOp
        /\ last' = OpRec("install", None, None, NoItem, stack, <<>>)
        /\ raised' = FALSE
        /\ inner' = <<>>
        /\ UNCHANGED <<stack, known, idc, clock, seg, exited, watch, outside>>

(* a caller invokes logger.span.<level>(name, fn), (name, fields, fn) or   *)
(* (name, fields): trace.span is called and, in the forms with fn, fn      *)
(* starts to run                                                           *)
LoggerSpan ==
    \E level \in LoggerLevels, form \in {"fn1", "fn2", "handle"},
       name \in Names, fields \in SpanFieldsArgs :
        LET r == span(stack, sub, idc, clock, name, Some(level), spanFn_fields(form, fields))
            tk == Len(tasks) + 1
        IN /\ tk <= MaxTasks
           /\ Apply("span", Some(level), None, r)
           /\ known' = known \cup {r.item}
           /\ tasks' = Append(tasks,
                           Task(IF form = "handle" THEN "held" ELSE "body", r.item, <<"span">>))
           /\ callstack' = IF form = "handle" THEN callstack ELSE Append(callstack, tk)
           /\ emitter' = 0
           /\ UNCHANGED <<sub, seg, exited, objects>>

(* the steps of spanFn run for call tk, which moves to position pc *)
Finish(tk, steps, pc) ==
    LET sp == tasks[tk].sp
        r == runSteps(stack, sub, idc, clock, sp, steps)
    IN /\ Apply(IF Count(steps, "exit") > 0 THEN "exit" ELSE "fn", Some(sp.meta.level), None, r)
       /\ tasks' = [ tasks EXCEPT ![tk] = Task(pc, sp, @.trail \o steps) ]
       /\ emitter' = 0
       /\ UNCHANGED <<sub, known, seg, exited, objects>>

(* the innermost running fn returns a value that is not a promise *)
FnReturns ==
    /\ callstack # <<>>
    /\ Finish(Top(callstack), spanFn_after("returns"), "done")
    /\ callstack' = Front(callstack)

(* the innermost running fn throws *)
FnThrows ==
    /\ callstack # <<>>
    /\ Finish(Top(callstack), spanFn_after("throws"), "done")
    /\ callstack' = Front(callstack)

(* the innermost running fn returns a promise that has not settled *)
FnReturnsPromise ==
    /\ callstack # <<>>
    /\ Finish(Top(callstack), spanFn_after("promise"), "pending")
    /\ callstack' = Front(callstack)

(* a promise returned by fn settles, fulfilled or rejected, while no fn    *)
(* is running: the finally callback runs                                   *)
PromiseSettles ==
    \E tk \in 1..Len(tasks) :
        /\ callstack = <<>>
        /\ tasks[tk].pc = "pending"
        /\ Finish(tk, spanFn_finally, "done")
        /\ UNCHANGED callstack

(* the caller invokes exit() of the handle the form without fn returned *)
HandleExit ==
    \E tk \in 1..Len(tasks) :
        /\ tasks[tk].pc = "held"
        /\ Finish(tk, spanFn_handle, "done")
        /\ UNCHANGED callstack

(* the logical task tk invokes logger.<level>`message`: the code of the    *)
(* innermost running fn when one is running, any task otherwise (one whose *)
(* fn awaits, or one that has no span open or has made no Logger.span call *)
(* at all)                                                                 *)
LoggerEvent ==
    \E tk \in 1..MaxTasks, level \in LoggerLevels, msg \in MessageArgs :
        LET r == event(stack, sub, idc, clock, None, Some(level), msg, logfn_fields(None))
        IN /\ callstack # <<>> => tk = Top(callstack)
           /\ Apply("event", Some(level), msg, r)
           /\ emitter' = tk
           /\ UNCHANGED <<sub, known, seg, exited, tasks, callstack, objects>>

NextLogger ==
    \/ LoggerSpan \/ FnReturns \/ FnThrows \/ FnReturnsPromise \/ PromiseSettles
    \/ HandleExit \/ LoggerEvent

SpecLogger == Init /\ [][NextLogger]_vars

(* the caller invokes trace.span(name, level, fields) with its fields object *)
SpanSupplied ==
    \E name \in Names, lvlArg \in SpanLevelArgs :
        LET r == span(stack, sub, idc, clock, name, lvlArg, Some(supplied))
        IN /\ Apply("span", Some(spanLevel(lvlArg)), None, r)
           /\ known' = known \cup {r.item}
           /\ Cardinality(known') <= MaxSpans
           /\ kept' = IF r.item.id # EmptyId THEN Kept(r.item, heap) ELSE kept
           /\ UNCHANGED <<sub, seg, exited, callers, heap, supplied>>

(* the caller invokes trace.event(name, level, msg, fields) with its fields object *)
EventSupplied ==
    \E name \in EventNames, lvlArg \in EventLevelArgs, msg \in MessageArgs :
        LET r == event(stack, sub, idc, clock, name, lvlArg, msg, Some(supplied))
        IN /\ Apply("event", lvlArg, msg, r)
           /\ kept' = IF r.item.id # EmptyId THEN Kept(r.item, heap) ELSE kept
           /\ UNCHANGED <<sub, known, seg, exited, callers, heap, supplied>>

(* the caller assigns to a key of its fields object: fields.requestId = v *)
SetKey ==
    \E v \in {1, 2} :
        /\ supplied' = [ supplied EXCEPT !.requestId = v ]
        /\ UNCHANGED <<stack, sub, installed, known, idc, clock, last, raised, inner, prev,
                       seg, exited, callers, heap, kept, watch>>

(* the caller mutates the object stored under a key: fields.user.name = v *)
SetNested ==
    \E v \in {"ann", "bob"} :
        /\ heap' = [ heap EXCEPT ![supplied.user].name = v ]
        /\ UNCHANGED <<stack, sub, installed, known, idc, clock, last, raised, inner, prev,
                       seg, exited, callers, supplied, kept, watch>>

NextFields == SpanSupplied \/ EventSupplied \/ SetKey \/ SetNested \/ Exit

SpecFields == Init /\ [][NextFields]_vars

NextBuilder == Span \/ Enter \/ Exit \/ Event \/ Install

SpecBuilder == InitBuilder /\ [][NextBuilder]_vars

----------------------------------------------------------------------------
(* Vocabulary of the properties *)

(* the last operation was one of the four dispatching operations *)
Dispatched == last.op \in {"span", "enter", "exit", "event"}

(* the last operation invoked a callback or changed the stack *)
Acted == last.calls # <<>> \/ stack # last.before

(* the filtering predicate as the specification words it: the level is     *)
(* defined, at least the subscriber's minLevel (TRACE when unset), and the *)
(* subscriber has at least one callback                                    *)
Listening(s, lvl) ==
    /\ lvl # None
    /\ lvl[1] >= (IF s.minLevel = None THEN TRACE ELSE s.minLevel[1])
    /\ Callbacks(s) # {}

(* the last operation created a span or an event (it was not filtered out) *)
Created ==
    /\ last.op \in {"span", "event"}
    /\ last.item.type \in {"span", "event"}
    /\ last.item.id # EmptyId

(* the id on top of stack stk, if any *)
TopId(stk) == IF stk = <<>> THEN None ELSE Some(stk[Len(stk)].id)

----------------------------------------------------------------------------
(* C1. Stack discipline: with A and then B pushed (the stack ends A, B) and *)
(* both levels active, exit(A) while B is open leaves the stack unchanged,  *)
(* and exit(B) followed by exit(A) removes B and then A, which leaves the   *)
(* stack as it was before A was pushed.                                     *)
C1_StackDiscipline ==
    /\ \A n \in 2..Len(last.before) :
        ( /\ last.op = "exit"
          /\ n = Len(last.before)
          /\ last.before[n - 1] = last.item
          /\ last.before[n] # last.item
          /\ Listening(sub, Some(last.before[n - 1].meta.level))
          /\ Listening(sub, Some(last.before[n].meta.level)) )
        => stack = last.before
    /\ \A n \in 2..Len(prev.before) :
        ( /\ prev.op = "exit"
          /\ last.op = "exit"
          /\ n = Len(prev.before)
          /\ prev.before[n] = prev.item
          /\ prev.before[n - 1] = last.item
          /\ prev.item # last.item
          /\ Listening(sub, Some(prev.item.meta.level))
          /\ Listening(sub, Some(last.item.meta.level)) )
        => /\ last.before = SubSeq(prev.before, 1, n - 1)
           /\ stack = SubSeq(prev.before, 1, n - 2)

(* C2. Parent linkage: every span or event created while active has        *)
(* meta.parent equal to the id of the span on top of the stack at the call, *)
(* and no parent when the stack is empty at the call.                       *)
C2_ParentLinkage ==
    Created => last.item.meta.parent = TopId(last.before)

C2_Witness ==
    /\ Created
    /\ last.op = "span"
    /\ last.before # <<>>
    /\ last.item.meta.parent = Some(last.before[Len(last.before)].id)
    /\ stack = Append(last.before, last.item)

(* C3. Filtering correctness: span() and event() at a level below the      *)
(* subscriber's minLevel invoke no callback and leave the stack unchanged.  *)
C3_FilteredBelowMinLevel ==
    ( /\ last.op \in {"span", "event"}
      /\ last.level # None
      /\ sub.minLevel # None
      /\ last.level[1] < sub.minLevel[1] )
    => /\ last.calls = <<>>
       /\ stack = last.before

C3_Witness ==
    /\ last.op = "span"
    /\ last.level = Some(DEBUG)
    /\ sub.minLevel = Some(INFO)
    /\ Callbacks(sub) = {"newSpan", "onEnter", "onExit", "onEvent"}
    /\ stack # <<>>
    /\ last.item.id = EmptyId

(* C4. No-op placeholder safety: enter() and exit() of a span that span()   *)
(* returned with the empty id invoke no callback and leave the stack        *)
(* unchanged; such a span is never on the stack and never a parent.         *)
C4_PlaceholderInert ==
    /\ (last.op \in {"enter", "exit"} /\ last.item.id = EmptyId) => ~Acted
    /\ \A i \in 1..Len(stack) : stack[i].id # EmptyId
    /\ Created => last.item.meta.parent # Some(EmptyId)

(* C5. An exited span is no longer current: once exit(S) was called on an   *)
(* active span S and enter(S) was not called since, no span or event        *)
(* created afterwards has S as its parent.                                  *)
C5_ExitedNeverParent ==
    Created => \A id \in exited : last.item.meta.parent # Some(id)

(* C6. Idempotent exit: exit(S) while S, pushed once by span(), is the top, *)
(* followed by a second exit(S), notifies onExit(S) twice, shortens the     *)
(* stack by exactly one element and removes no span other than S.           *)
C6_IdempotentExit ==
    ( /\ prev.op = "exit"
      /\ last.op = "exit"
      /\ prev.item = last.item
      /\ last.item.id # EmptyId
      /\ prev.before # <<>>
      /\ prev.before[Len(prev.before)] = last.item
      /\ Occurrences(prev.before, last.item) = 1
      /\ Listening(sub, Some(last.item.meta.level)) )
    => /\ last.before = SubSeq(prev.before, 1, Len(prev.before) - 1)
       /\ stack = last.before
       /\ sub.onExit # "absent" =>
            /\ prev.calls = << Call("onExit", last.item) >>
            /\ last.calls = << Call("onExit", last.item) >>

C6_Witness ==
    /\ prev.op = "exit"
    /\ last.op = "exit"
    /\ prev.item = last.item
    /\ last.item.id # EmptyId
    /\ Len(prev.before) = 2
    /\ prev.before[2] = last.item
    /\ prev.before[1] # last.item
    /\ stack = << prev.before[1] >>
    /\ prev.calls = << Call("onExit", last.item) >>
    /\ last.calls = << Call("onExit", last.item) >>

(* C7. Properly nested spans: over a properly nested run of span() and      *)
(* exit() calls at active levels under one subscriber, onEnter is invoked   *)
(* once per span in opening order and onExit once per span in closing       *)
(* order, each span's parent is the span directly enclosing it, and the     *)
(* stack is the stack the run started from plus the spans still open (so    *)
(* it is back to the start when every span is closed).                      *)
C7_ProperNesting ==
    watch = "nested" =>
        /\ stack = seg.base \o seg.open
        /\ sub.onEnter # "absent" => seg.enters = seg.opened
        /\ sub.onExit # "absent" => seg.exits = seg.closed
        /\ \A i \in 1..Len(seg.open) :
            seg.open[i].meta.parent =
                IF i = 1 THEN TopId(seg.base) ELSE Some(seg.open[i - 1].id)

C7_Witness ==
    /\ watch = "nested"
    /\ sub.onEnter # "absent"
    /\ sub.onExit # "absent"
    /\ seg.open = <<>>
    /\ Len(seg.opened) = 2
    /\ seg.enters = seg.opened
    /\ seg.exits = << seg.opened[2], seg.opened[1] >>
    /\ last.op = "exit"
    /\ stack = seg.base

(* C8. Event delivery: with a subscriber of minimum level M that has        *)
(* onEvent, event(name, L, message, fields) invokes onEvent exactly once    *)
(* when L >= M and not at all when L < M; the event delivered carries the   *)
(* message and has meta.level = L.                                          *)
C8_EventDelivery ==
    ( /\ last.op = "event"
      /\ last.level # None
      /\ sub.onEvent # "absent" )
    => IF last.level[1] >= (IF sub.minLevel = None THEN TRACE ELSE sub.minLevel[1])
       THEN /\ Len(last.calls) = 1
            /\ last.calls[1].cb = "onEvent"
            /\ last.calls[1].item.type = "event"
            /\ last.calls[1].item.message = last.message
            /\ last.calls[1].item.meta.level = last.level[1]
       ELSE last.calls = <<>>

C8_Witness ==
    /\ last.op = "event"
    /\ last.level = Some(INFO)
    /\ sub.minLevel = Some(INFO)
    /\ Len(last.calls) = 1
    /\ last.calls[1].cb = "onEvent"
    /\ last.calls[1].item.message = Some("Application ready")
    /\ last.calls[1].item.meta.level = INFO

(* C9. Events never touch the stack: event(), delivered or filtered out,    *)
(* leaves the stack as it was.                                              *)
C9_EventLeavesStack ==
    last.op = "event" => stack = last.before

C9_Witness ==
    /\ last.op = "event"
    /\ Len(last.calls) = 1
    /\ Len(last.before) = 2
    /\ stack = last.before

(* C10, as stated. span/enter/exit/event invoke a callback or change the    *)
(* stack if and only if the filtering predicate holds of the level and the  *)
(* subscriber.                                                              *)
C10_ActsIffListening ==
    Dispatched => (Acted <=> Listening(sub, last.level))

(* C10, amended. They act only if the predicate holds; span() and enter()   *)
(* push the span exactly when it holds; exit() acts exactly when it holds   *)
(* and the subscriber has onExit or the top of the stack has the span's id; *)
(* event() acts exactly when it holds and the subscriber has onEvent.  A    *)
(* subscriber without callbacks makes every operation a no-op.              *)
C10_ActsOnlyIfListening ==
    Dispatched =>
        /\ Acted => Listening(sub, last.level)
        /\ last.op \in {"span", "enter"} =>
             (Listening(sub, last.level) <=> stack = Append(last.before, last.item))
        /\ last.op = "exit" =>
             (Acted <=> /\ Listening(sub, last.level)
                        /\ \/ sub.onExit # "absent"
                           \/ TopId(last.before) = Some(last.item.id))
        /\ last.op = "event" =>
             (Acted <=> Listening(sub, last.level) /\ sub.onEvent # "absent")
        /\ Callbacks(sub) = {} => ~Acted

C10_Witness ==
    /\ last.op = "span"
    /\ Callbacks(sub) = {}
    /\ sub.minLevel = Some(INFO)
    /\ last.level = Some(INFO)
    /\ ~Acted
    /\ last.item.id = EmptyId

(* C11. Inert without a subscriber: on an engine constructed with no        *)
(* subscriber, as long as setSubscriber has not been called, after any      *)
(* sequence of span/enter/exit/event calls the stack is empty and every     *)
(* span span() returned is the placeholder with the empty id and            *)
(* timestamp 0.                                                             *)
C11_InertWithoutSubscriber ==
    watch = "inert" =>
        /\ stack = <<>>
        /\ \A sp \in known : sp.id = EmptyId /\ sp.meta.ts = 0

C11_Witness ==
    /\ watch = "inert"
    /\ sub = EmptySubscriber
    /\ Cardinality(known) = 2
    /\ last.op = "enter"
    /\ last.item \in known
    /\ last.item.id = EmptyId
    /\ stack = <<>>

(* C12. Subscriber replacement: setSubscriber(s) invokes no callback and    *)
(* leaves the stack unchanged; from then on getSubscriber() returns s, and  *)
(* every callback a later span/enter/exit/event call invokes is a callback  *)
(* of s, invoked under the filter of s: onEnter, onExit and onEvent are     *)
(* invoked exactly as s has them, whatever the replaced subscriber had.     *)
C12_SubscriberReplacement ==
    /\ last.op = "setSubscriber" => last.calls = <<>> /\ stack = last.before
    /\ getSubscriber(sub) = installed
    /\ Dispatched =>
         /\ \A i \in 1..Len(last.calls) : last.calls[i].cb \in Callbacks(installed)
         /\ Acted => Listening(installed, last.level)
         /\ last.op \in {"span", "enter"} =>
              ("onEnter" \in { last.calls[i].cb : i \in 1..Len(last.calls) }
                 <=> Listening(installed, last.level) /\ installed.onEnter # "absent")
         /\ last.op = "exit" =>
              (last.calls # <<>> <=> Listening(installed, last.level) /\ installed.onExit # "absent")
         /\ last.op = "event" =>
              (last.calls # <<>> <=> Listening(installed, last.level) /\ installed.onEvent # "absent")

(* a span made by the newSpan of one subscriber is still open when a        *)
(* subscriber without newSpan and without onExit has replaced it: exit()    *)
(* of the span pops it and invokes nothing                                  *)
C12_Witness ==
    /\ last.op = "exit"
    /\ last.item.id < 0
    /\ installed.newSpan = "absent"
    /\ installed.onExit = "absent"
    /\ installed.onEnter # "absent"
    /\ last.calls = <<>>
    /\ last.before # <<>>
    /\ stack = Front(last.before)

(* the steps of kind `kind` the merged subscriber took for callback cb *)
StepsOf(kind, cb) ==
    LET wanted(st) == st.kind = kind /\ st.cb = cb IN SelectSeq(inner, wanted)

(* the layers of the installed builder *)
LayersInstalled == sub.builder.layers

(* C13. Builder fan-out: with a Builder without custom filter installed,    *)
(* every onEnter, onExit and onEvent the engine dispatches is delivered     *)
(* exactly once to each layer that implements that callback, in layer       *)
(* order, with the span or event dispatched, and no layer is invoked for a  *)
(* callback the engine did not dispatch.                                    *)
C13_BuilderFanOut ==
    ( /\ sub.newSpan = "merged"
      /\ sub.builder.filters = <<>>
      /\ Dispatched )
    => \A cb \in {"onEnter", "onExit", "onEvent"} :
         LET got == StepsOf("layer", cb)
             engine == { k \in 1..Len(last.calls) : last.calls[k].cb = cb }
         IN /\ engine = {} => got = <<>>
            /\ \A k \in engine :
                 /\ \A j \in 1..Len(got) :
                      /\ got[j].item = last.calls[k].item
                      /\ LayersInstalled[got[j].idx][cb] # "absent"
                 /\ \A j \in 1..(Len(got) - 1) : got[j].idx < got[j + 1].idx
                 /\ \A i \in 1..Len(LayersInstalled) :
                      LayersInstalled[i][cb] # "absent"
                        => \E j \in 1..Len(got) : got[j].idx = i

(* the callback the last operation dispatches *)
CallbackOf(op) ==
    CASE op \in {"span", "enter"} -> "onEnter"
      [] op = "exit" -> "onExit"
      [] OTHER -> "onEvent"

(* C14. Builder minimum level: a builder chain ending in install(t) leaves  *)
(* its merged subscriber on the trace; with a builder of minimum level M,   *)
(* one layer l and no filter installed, every span()/enter()/exit()/event() *)
(* call at a level >= M invokes the matching callback of l (if l has it)    *)
(* exactly once with that span or event, and a call at a level below M, or  *)
(* without a level, invokes nothing of l.                                   *)
C14_BuilderMinLevel ==
    /\ last.op = "install" => sub.newSpan = "merged"
    /\ ( /\ Dispatched
         /\ sub.newSpan = "merged"
         /\ Len(sub.builder.layers) = 1
         /\ sub.builder.filters = <<>> )
       => IF last.level # None /\ last.level[1] >= sub.builder.minLevel
          THEN sub.builder.layers[1][CallbackOf(last.op)] # "absent"
                 => StepsOf("layer", CallbackOf(last.op))
                      = << Step("layer", 1, CallbackOf(last.op), last.item) >>
          ELSE inner = <<>>

(* C15. Scoped span release: for a Logger.span call with fn at an active    *)
(* level, trace.exit is called on the created span exactly once when the    *)
(* call is over and not at all before: after fn returned synchronously,     *)
(* before the error fn threw is rethrown, and after (not before) the        *)
(* promise fn returned has settled.                                         *)
C15_ScopedRelease ==
    \A tk \in 1..Len(tasks) :
        LET trail == tasks[tk].trail
            At(step) == CHOOSE i \in 1..Len(trail) : trail[i] = step
        IN tasks[tk].sp.id # EmptyId
           => /\ tasks[tk].pc \in {"body", "pending"} => Count(trail, "exit") = 0
              /\ tasks[tk].pc = "done" => Count(trail, "exit") = 1
              /\ (Count(trail, "return") = 1 /\ Count(trail, "finally") = 0)
                   => At("exit") < At("return")
              /\ Count(trail, "rethrow") = 1 => At("exit") < At("rethrow")
              /\ Count(trail, "settled") = 1 => At("settled") < At("exit")

C15_Witness ==
    /\ Len(tasks) = 2
    /\ tasks[1].sp.id # EmptyId
    /\ tasks[2].sp.id # EmptyId
    /\ tasks[1].trail = <<"span", "finally", "return", "settled", "exit">>
    /\ tasks[2].trail = <<"span", "exit", "rethrow">>
    /\ tasks[1].pc = "done"
    /\ last.op = "exit"
    /\ last.item = tasks[1].sp
    /\ last.calls = << Call("onExit", tasks[1].sp) >>

(* C16. Stack maintenance survives a failing subscriber: when onExit throws *)
(* during exit(S) at an active level while S is the top of the stack, S is  *)
(* popped all the same and the error reaches the caller.                    *)
C16_PopDespiteFailingOnExit ==
    ( /\ last.op = "exit"
      /\ sub.onExit = "throws"
      /\ Listening(sub, last.level)
      /\ last.before # <<>>
      /\ TopId(last.before) = Some(last.item.id) )
    => /\ stack = SubSeq(last.before, 1, Len(last.before) - 1)
       /\ raised

(* C17. Fields are copied, not aliased: once span() or event() has recorded *)
(* the caller's fields, the fields of the recorded span or event keep       *)
(* reading what they read then, whatever the caller does afterwards to the  *)
(* keys of its fields object or to the objects stored under them.           *)
C17_FieldsNotAliased ==
    kept # NotKept => Read(kept.item.meta.fields, heap) = kept.read

(* C18. Shared-stack interleaving corrupts parentage: the parent of an      *)
(* event a logical task emits through the Logger is the span on top of the  *)
(* one shared stack, whichever task opened it; so there is a reachable      *)
(* interleaving (the witness) in which task B, which has opened no span,    *)
(* emits an event recorded with meta.parent equal to the id of the span     *)
(* task A holds open.                                                       *)
C18_ParentFromSharedStack ==
    ( /\ emitter # 0
      /\ last.op = "event"
      /\ last.item.type = "event" )
    => /\ stack = last.before
       /\ last.item.meta.parent = TopId(stack)
       /\ \A a \in 1..Len(tasks) :
            ( /\ stack # <<>>
              /\ tasks[a].pc \in {"body", "pending", "held"}
              /\ stack[Len(stack)] = tasks[a].sp )
            => last.item.meta.parent = Some(tasks[a].sp.id)

C18_Witness ==
    /\ emitter = 2
    /\ Len(tasks) = 1
    /\ tasks[1].pc = "pending"
    /\ tasks[1].sp.id # EmptyId
    /\ stack = << tasks[1].sp >>
    /\ last.op = "event"
    /\ last.item.type = "event"
    /\ last.item.meta.parent = Some(tasks[1].sp.id)
    /\ last.calls = << Call("onEvent", last.item) >>

(* the positions of the installed layers that implement newSpan *)
WithNewSpan == { i \in 1..Len(LayersInstalled) : LayersInstalled[i].newSpan # "absent" }

(* C19. Builder newSpan selection: with a Builder-installed subscriber, an  *)
(* active span() asks the engine's metadata (level, name, parent and fields *)
(* of the call) of the merged newSpan; when some layer implements newSpan,  *)
(* newSpan of the first such layer is called once with that metadata, no    *)
(* other layer's newSpan is called, and its result is the span returned and *)
(* pushed; when none does, the span has an id no other span has and exactly *)
(* that metadata.                                                           *)
C19_BuilderNewSpan ==
    ( /\ last.op = "span"
      /\ sub.newSpan = "merged"
      /\ Listening(sub, last.level) )
    => /\ last.calls # <<>>
       /\ last.calls[1].cb = "newSpan"
       /\ last.calls[1].item.meta.level = last.level[1]
       /\ last.calls[1].item.meta.parent = TopId(last.before)
       /\ last.calls[1].item.meta.name \in { Some(name) : name \in Names }
       /\ last.calls[1].item.meta.fields \in SpanFieldsArgs
       /\ stack = Append(last.before, last.item)
       /\ IF WithNewSpan # {}
          THEN \E first \in WithNewSpan :
                 /\ \A i \in WithNewSpan : first <= i
                 /\ StepsOf("layer", "newSpan")
                      = << Step("layer", first, "newSpan", last.calls[1].item) >>
                 /\ last.item = layerNewSpan(first, last.calls[1].item.meta)
          ELSE /\ StepsOf("layer", "newSpan") = <<>>
               /\ last.item.type = "span"
               /\ last.item.meta = last.calls[1].item.meta
               /\ last.item.id # EmptyId
               /\ \A sp \in known \ {last.item} : sp.id # last.item.id
               /\ \A i \in 1..Len(last.before) : last.before[i].id # last.item.id

C19_Witness ==
    /\ last.op = "span"
    /\ sub.newSpan = "merged"
    /\ WithNewSpan = {1, 2}
    /\ last.before # <<>>
    /\ StepsOf("layer", "newSpan") = << Step("layer", 1, "newSpan", last.calls[1].item) >>
    /\ last.item = layerNewSpan(1, last.calls[1].item.meta)
    /\ stack = Append(last.before, last.item)

(* C20. Builder custom filters: with one or more filters registered, a span *)
(* or event the engine hands to onEnter, onExit or onEvent of the merged    *)
(* subscriber is delivered to each layer that implements the callback       *)
(* exactly once when at least one filter accepts (type, level, metadata)    *)
(* and to no layer otherwise; the filters are evaluated in order up to the  *)
(* first that accepts, and no filter after it is evaluated.                 *)
C20_BuilderFilters ==
    ( /\ Dispatched
      /\ sub.newSpan = "merged"
      /\ sub.builder.filters # <<>> )
    => \A k \in 1..Len(last.calls) :
         LET c == last.calls[k]
             fs == sub.builder.filters
             yes == { i \in 1..Len(fs) :
                        accepts(fs[i], c.item.type, c.item.meta.level, c.item.meta) }
             got == StepsOf("layer", c.cb)
             asked == StepsOf("filter", c.cb)
             upTo == IF yes = {} THEN Len(fs) ELSE CHOOSE i \in yes : \A j \in yes : i <= j
         IN c.cb \in {"onEnter", "onExit", "onEvent"}
            => /\ \A j \in 1..Len(got) : got[j].item = c.item
               /\ \A i \in 1..Len(LayersInstalled) :
                    Cardinality({ j \in 1..Len(got) : got[j].idx = i })
                      = IF yes # {} /\ LayersInstalled[i][c.cb] # "absent" THEN 1 ELSE 0
               /\ Len(asked) = upTo
               /\ \A j \in 1..Len(asked) : asked[j].idx = j

C20_Witness ==
    /\ last.op = "span"
    /\ last.level = Some(INFO)
    /\ sub.newSpan = "merged"
    /\ sub.builder.filters = <<"spanOnly", "infoUp">>
    /\ Len(StepsOf("filter", "onEnter")) = 1
    /\ Len(StepsOf("layer", "onEnter")) = 2
    /\ StepsOf("layer", "onEnter")[1].idx = 1
    /\ StepsOf("layer", "onEnter")[2].idx = 2

----------------------------------------------------------------------------
(* the callbacks an operation reaches, in the order of its code *)
ReachedBy(op) ==
    CASE op = "span" -> <<"newSpan", "onEnter">>
      [] op = "enter" -> <<"onEnter">>
      [] op = "exit" -> <<"onExit">>
      [] OTHER -> <<"onEvent">>

(* C21. Subscriber errors propagate: when a callback that span(), enter(),  *)
(* exit() or event() reaches at an active level throws, the error reaches   *)
(* the caller and no callback is invoked after the one that threw; when it  *)
(* is newSpan or onEnter inside span() or enter(), the span is not pushed,  *)
(* the stack is exactly what it was before the call, and span() returns     *)
(* nothing.                                                                 *)
C21_SubscriberErrorsPropagate ==
    ( /\ Dispatched
      /\ Listening(sub, last.level)
      /\ \E i \in 1..Len(ReachedBy(last.op)) : sub[ReachedBy(last.op)[i]] = "throws" )
    => /\ raised
       /\ last.calls # <<>>
       /\ \A i \in 1..Len(last.calls) :
            sub[last.calls[i].cb] = "throws" <=> i = Len(last.calls)
       /\ last.op \in {"span", "enter"} => stack = last.before
       /\ last.op = "span" => last.item = NoItem

(* enter(S) on a non-empty stack with a subscriber whose onEnter throws:   *)
(* onEnter was invoked with S, the error reached the caller, nothing was    *)
(* pushed                                                                   *)
C21_Witness ==
    /\ last.op = "enter"
    /\ sub.onEnter = "throws"
    /\ last.calls = << Call("onEnter", last.item) >>
    /\ raised
    /\ last.before # <<>>
    /\ stack = last.before
----------------------------------------------------------------------------
(* what the subscriber created inside the callback of the last operation:  *)
(* the spans and events its nested calls handed to the subscriber          *)
InnerItems ==
    [ i \in 1..(Len(last.calls) - 1) |-> last.calls[i + 1].item ]

(* the spans among items, in order *)
RECURSIVE SpansOf(_)
SpansOf(items) ==
    IF items = <<>> THEN <<>>
    ELSE (IF Head(items).type = "span" THEN << Head(items) >> ELSE <<>>)
         \o SpansOf(Tail(items))

(* C22. Notify before mutate: in span() and enter() onEnter(S) runs before  *)
(* S is pushed, so a span or event the subscriber creates inside onEnter(S) *)
(* has as parent the span that was on top before the call (not S, unless S  *)
(* itself was on top), and a span opened there lies under S on the stack;   *)
(* in exit() onExit(S) runs before the pop, so a span or event created      *)
(* inside onExit(S) while S is on top has parent S.id.                      *)
C22_NotifyBeforeMutate ==
    ( /\ last.op \in {"span", "enter", "exit"}
      /\ Len(last.calls) > 1
      /\ last.calls[1] = Call(CallbackOf(last.op), last.item) )
    => /\ \A i \in 1..Len(InnerItems) :
            /\ InnerItems[i].meta.name = Some(InnerName)
            /\ last.op \in {"span", "enter"} =>
                 /\ InnerItems[i].meta.parent = TopId(last.before)
                 /\ TopId(last.before) # Some(last.item.id)
                      => InnerItems[i].meta.parent # Some(last.item.id)
            /\ (last.op = "exit" /\ TopId(last.before) = Some(last.item.id)) =>
                 InnerItems[i].meta.parent = Some(last.item.id)
       /\ last.op \in {"span", "enter"} =>
            stack = last.before \o SpansOf(InnerItems) \o << last.item >>

(* span() made S on a non-empty stack and onEnter(S) emitted an event:     *)
(* the event's parent is the span that was on top, and S is on top now     *)
C22_Witness ==
    /\ last.op = "span"
    /\ sub.onEnter = "emits"
    /\ last.before # <<>>
    /\ Len(last.calls) = 2
    /\ last.calls[1] = Call("onEnter", last.item)
    /\ last.calls[2].cb = "onEvent"
    /\ last.calls[2].item.meta.parent = TopId(last.before)
    /\ last.calls[2].item.meta.parent # Some(last.item.id)
    /\ Top(stack) = last.item
----------------------------------------------------------------------------
(* C23. enter pushes unconditionally: enter(S) at an active level invokes   *)
(* onEnter(S) exactly once (when the subscriber has onEnter) and pushes S   *)
(* on top of the stack, whether or not S is on the stack already; the       *)
(* element pushed is S as the caller holds it, id and metadata unchanged.   *)
C23_EnterPushesUnconditionally ==
    ( /\ last.op = "enter"
      /\ Listening(sub, last.level) )
    => /\ stack = Append(last.before, last.item)
       /\ last.item \in known
       /\ last.calls = IF sub.onEnter # "absent"
                       THEN << Call("onEnter", last.item) >>
                       ELSE <<>>

(* enter(S) while S is on the stack: the stack holds S twice *)
C23_Witness ==
    /\ last.op = "enter"
    /\ last.item.id # EmptyId
    /\ Occurrences(last.before, last.item) = 1
    /\ Occurrences(stack, last.item) = 2
    /\ Top(stack) = last.item
    /\ last.calls = << Call("onEnter", last.item) >>

----------------------------------------------------------------------------
(* C24. The stack changes only at its top: an operation leaves the stack    *)
(* unchanged, or span()/enter() appends exactly one element, or exit()      *)
(* removes exactly the last element; every element under the top stays in   *)
(* its place.                                                               *)
C24_ChangesOnlyAtTop ==
    /\ \/ stack = last.before
       \/ /\ last.op \in {"span", "enter"}
          /\ stack = Append(last.before, last.item)
       \/ /\ last.op = "exit"
          /\ last.before # <<>>
          /\ stack = Front(last.before)
    /\ \A i \in 1..Len(last.before) :
            i < Len(last.before) => (i <= Len(stack) /\ stack[i] = last.before[i])

(* exit() removed the top of a stack of two: the element under it stayed *)
C24_Witness ==
    /\ last.op = "exit"
    /\ Len(last.before) = 2
    /\ last.before[2] = last.item
    /\ stack = << last.before[1] >>
    /\ last.before[1] # last.item
----------------------------------------------------------------------------
(* C25. Balanced use empties the stack across subscriber changes: when the  *)
(* caller has passed every span it got from span() to exit(), once each and *)
(* last one first, the stack is empty, also when setSubscriber was called   *)
(* between the creation of a span and its exit.                             *)
C25_BalancedUseEmptiesStack ==
    ( /\ watch = "balanced"
      /\ seg.open = <<>> )
    => stack = <<>>
----------------------------------------------------------------------------
(* C26. Overlapping asynchronous scoped spans leave no residue: when two    *)
(* Logger.span calls whose fn returned a promise (A opened first, then B)   *)
(* are both over, their promises settled in either order, the stack is what *)
(* it was before A was opened (empty), and an event emitted afterwards has  *)
(* neither A nor B as its parent.                                           *)
C26_NoResidueAfterOverlap ==
    ( /\ Len(tasks) = 2
      /\ \A tk \in 1..2 :
            /\ tasks[tk].pc = "done"
            /\ Count(tasks[tk].trail, "finally") = 1
            /\ Count(tasks[tk].trail, "settled") = 1 )
    => /\ stack = <<>>
       /\ (last.op = "event" /\ last.item.type = "event")
            => \A tk \in 1..2 :
                 tasks[tk].sp.id # EmptyId
                   => last.item.meta.parent # Some(tasks[tk].sp.id)
====
